---------------------------- MODULE Spec2Model ----------------------------
(***************************************************************************)
(* Client-credential issuance and bearer-token verification of the        *)
(* WebAPI-Starter application (api_auth.py), together with the credential *)
(* store operations and the session-login token of auth.py.               *)
(*                                                                         *)
(* Time is counted in ticks, TicksPerSecond ticks to a second, so that    *)
(* the truncation of datetimes to whole seconds done by the JWT encoding  *)
(* is visible.  The `exp` and `iat` claims of a token are whole seconds.  *)
(* jwt.decode is modelled after PyJWT 2.x: the signature is checked       *)
(* first, then `iat` (if present) and `exp` (if present); a token is      *)
(* expired when exp <= now.                                               *)
(*                                                                         *)
(* Spec is the issuance, the verifier, the session cookie and the         *)
(* management of client applications; SpecGate is the issuance and the    *)
(* protected endpoints behind get_current_api_client, with the store      *)
(* operations that make an application unavailable.  SpecAdmin is the     *)
(* management interface with all its endpoints, SpecSession the login     *)
(* and logout of auth.py, SpecItems the items API.  SpecGateRace and      *)
(* SpecToggleRace take a request one store call at a time.                *)
(***************************************************************************)
EXTENDS Integers, FiniteSets, Sequences, TLC

\* ------------------------------------------------------------------ bounds
TicksPerSecond == 2
MaxTime == 2            \* the clock runs from 0 to MaxTime seconds
MaxLifetime == 1        \* largest expires_in a client requests, in seconds
MaxApps == 2            \* client applications ever created
NumAppIds == 2          \* size of the space generated app_ids are drawn from
NumSecrets == 2         \* size of the space generated app_secrets are drawn from
MaxSessions == 2        \* session tokens active_sessions holds at a time
MaxItemId == 3          \* largest id the items table hands out
NumUsers == 3           \* ids of the users table: 1 .. NumUsers
NumToggleRequests == 2  \* toggle-status requests in flight together

\* --------------------------------------------------------- program constants
API_SECRET_KEY == "api-key"
SESSION_SECRET_KEY == "session-key"
ACCESS_TOKEN_EXPIRE_MINUTES == 30
HTTP_200_OK == 200
HTTP_303_SEE_OTHER == 303
HTTP_400_BAD_REQUEST == 400
HTTP_401_UNAUTHORIZED == 401
HTTP_403_FORBIDDEN == 403
HTTP_404_NOT_FOUND == 404
HTTP_500_INTERNAL_SERVER_ERROR == 500

\* An optional value: <<>> when absent, <<v>> when present.  The empty string
\* and the app_id 0 stand for an absent or empty string claim.
Absent == <<>>
Some(v) == <<v>>

VARIABLES
    now,            \* the clock, in ticks
    client_apps,    \* the client_apps table: a set of rows
    next_id,        \* the next AUTOINCREMENT id of the table
    bearer,         \* the API token the client holds, with its issue data
    resp,           \* the response of the last request
    active_sessions, \* auth.active_sessions: the session tokens it holds
    items_db,       \* the items table: a set of rows
    next_item_id,   \* the next AUTOINCREMENT id of the items table
    gate_pc,        \* the request that is inside get_current_api_client
    toggle_pc       \* the toggle-status requests in flight, by request

vars == <<now, client_apps, next_id, bearer, resp, active_sessions,
          items_db, next_item_id, gate_pc, toggle_pc>>

\* The state a group of operations does not touch.
session_vars == <<active_sessions>>
item_vars == <<items_db, next_item_id>>
race_vars == <<gate_pc, toggle_pc>>
others == <<session_vars, item_vars, race_vars>>

\* ------------------------------------------------------------------- tokens
\* A token string: its format, the key it is signed with, and its payload.
NoToken ==
    [form |-> "none", sig |-> "", type |-> "", app_id |-> 0,
     app_name |-> Absent, exp |-> Absent, iat |-> Absent, sub |-> ""]

\* jwt.encode(payload, key): datetimes are truncated to whole seconds.
ToSeconds(t) == t \div TicksPerSecond

JwtEncode(key, type, app_id, exp_ticks, iat_ticks, sub) ==
    [form |-> "jws", sig |-> key, type |-> type, app_id |-> app_id,
     app_name |-> Absent,
     exp |-> IF exp_ticks = Absent THEN Absent ELSE Some(ToSeconds(exp_ticks[1])),
     iat |-> IF iat_ticks = Absent THEN Absent ELSE Some(ToSeconds(iat_ticks[1])),
     sub |-> sub]

\* Mutants of jwt.decode: expiry is not verified (verify_exp off); the expiry
\* comparison is inverted.
JwtDecode_NoExpiry(tok, key, t) ==
    IF tok.sig = "garbled" THEN "DecodeError"
    ELSE IF tok.sig # key THEN "InvalidSignatureError"
    ELSE IF tok.iat # Absent /\ tok.iat[1] * TicksPerSecond > t
         THEN "ImmatureSignatureError"
    ELSE "ok"

JwtDecode_InvertedExpiry(tok, key, t) ==
    IF tok.sig = "garbled" THEN "DecodeError"
    ELSE IF tok.sig # key THEN "InvalidSignatureError"
    ELSE IF tok.iat # Absent /\ tok.iat[1] * TicksPerSecond > t
         THEN "ImmatureSignatureError"
    ELSE IF tok.exp # Absent /\ tok.exp[1] * TicksPerSecond > t
         THEN "ExpiredSignatureError"
    ELSE "ok"

\* A token is still taken at the instant of its exp.
JwtDecode_StrictExpiry(tok, key, t) ==
    IF tok.sig = "garbled" THEN "DecodeError"
    ELSE IF tok.sig # key THEN "InvalidSignatureError"
    ELSE IF tok.iat # Absent /\ tok.iat[1] * TicksPerSecond > t
         THEN "ImmatureSignatureError"
    ELSE IF tok.exp # Absent /\ tok.exp[1] * TicksPerSecond < t
         THEN "ExpiredSignatureError"
    ELSE "ok"

\* jwt.decode(token, key, algorithms) of PyJWT: the error class, or "ok".
JwtDecode(tok, key, t) ==
    IF tok.sig = "garbled" THEN "DecodeError"
    ELSE IF tok.sig # key THEN "InvalidSignatureError"
    ELSE IF tok.iat # Absent /\ tok.iat[1] * TicksPerSecond > t
         THEN "ImmatureSignatureError"
    ELSE IF tok.exp # Absent /\ tok.exp[1] * TicksPerSecond <= t
         THEN "ExpiredSignatureError"
    ELSE "ok"

\* ------------------------------------------------------- credential store
NoApp == [id |-> 0, app_id |-> 0, app_secret |-> 0, is_active |-> FALSE]

get_client_app(store, client_app_id) ==
    IF \E a \in store : a.id = client_app_id
    THEN CHOOSE a \in store : a.id = client_app_id
    ELSE NoApp

get_client_app_by_app_id(store, app_id) ==
    IF \E a \in store : a.app_id = app_id
    THEN CHOOSE a \in store : a.app_id = app_id
    ELSE NoApp

\* INSERT INTO client_apps (name, description, app_id, app_secret, created_by):
\* is_active is not among the inserted columns and takes the column default 1.
\* The UNIQUE constraint on app_id makes the insert fail on a duplicate.
\* Mutant of the table definition: app_id is not declared UNIQUE.
InsertViolatesUnique_NoConstraint(store, app_id) == FALSE

InsertViolatesUnique(store, app_id) == \E a \in store : a.app_id = app_id

create_client_app(store, id, app_id, app_secret, is_active) ==
    store \cup {[id |-> id, app_id |-> app_id, app_secret |-> app_secret,
                 is_active |-> TRUE]}

\* UPDATE client_apps SET is_active = ? WHERE id = ?
update_client_app(store, client_app_id, is_active) ==
    {IF a.id = client_app_id THEN [a EXCEPT !.is_active = is_active] ELSE a
        : a \in store}

delete_client_app(store, client_app_id) ==
    {a \in store : a.id # client_app_id}

\* Mutant of regenerate_secret: the application is switched off as well.
regenerate_secret_Deactivates(store, client_app_id, app_secret) ==
    {IF a.id = client_app_id
        THEN [a EXCEPT !.app_secret = app_secret, !.is_active = FALSE] ELSE a
        : a \in store}

\* UPDATE of app_secret WHERE id = ?; app_secret is the generated secret.
regenerate_secret(store, client_app_id, app_secret) ==
    {IF a.id = client_app_id THEN [a EXCEPT !.app_secret = app_secret] ELSE a
        : a \in store}

\* ----------------------------------------------------------- api_auth.py
Reject(detail) ==
    [status |-> HTTP_401_UNAUTHORIZED, detail |-> detail, app_id |-> 0]
Accept(app_id) ==
    [status |-> HTTP_200_OK, detail |-> "", app_id |-> app_id]

\* Mutants of the credential checks: the secret is not compared; a wrong
\* secret gets a message of its own.
CredentialError_NoSecretCheck(store, app_id, app_secret) ==
    LET client_app == get_client_app_by_app_id(store, app_id) IN
    IF client_app = NoApp THEN "Invalid client credentials"
    ELSE IF ~client_app.is_active THEN "Client application is disabled"
    ELSE ""

CredentialError_WrongSecretMessage(store, app_id, app_secret) ==
    LET client_app == get_client_app_by_app_id(store, app_id) IN
    IF client_app = NoApp THEN "Invalid client credentials"
    ELSE IF ~client_app.is_active THEN "Client application is disabled"
    ELSE IF client_app.app_secret # app_secret THEN "Invalid client secret"
    ELSE ""

\* create_api_token, the credential checks: the error raised, or "" for none.
CredentialError(store, app_id, app_secret) ==
    LET client_app == get_client_app_by_app_id(store, app_id) IN
    IF client_app = NoApp THEN "Invalid client credentials"
    ELSE IF ~client_app.is_active THEN "Client application is disabled"
    ELSE IF client_app.app_secret # app_secret THEN "Invalid client credentials"
    ELSE ""

\* Mutant of the payload: the type discriminator is misspelt.
MintApiToken_WrongType(app_id, expires_in, t_exp, t_iat) ==
    [JwtEncode(API_SECRET_KEY, "api", app_id,
               Some(t_exp + expires_in * TicksPerSecond), Some(t_iat), "")
        EXCEPT !.app_name = Some("name")]

\* create_api_token, the payload and its encoding.  t_exp and t_iat are the
\* two readings of datetime.utcnow(); app_name is the name of the stored
\* application.
MintApiToken(app_id, expires_in, t_exp, t_iat) ==
    [JwtEncode(API_SECRET_KEY, "api_token", app_id,
               Some(t_exp + expires_in * TicksPerSecond), Some(t_iat), "")
        EXCEPT !.app_name = Some("name")]

\* create_api_token, the returned dictionary.  expires_at is the untruncated
\* first reading of the clock plus the lifetime, in ticks.
create_api_token_result(tok, expires_in, t_exp) ==
    [access_token |-> tok, token_type |-> "bearer", expires_in |-> expires_in,
     expires_at |-> t_exp + expires_in * TicksPerSecond]

\* The fields of the response model APIToken of the issuance endpoint.
APIToken == {"access_token", "token_type", "expires_in"}

\* response_model=...: the response body keeps the fields of the model only.
ResponseModel(model, result) ==
    [f \in (DOMAIN result) \cap model |-> result[f]]

\* Mutants of verify_api_token: the liveness check does not look at
\* is_active; the type check is missing; the type check comes after the
\* liveness check.
verify_api_token_NoActiveCheck(tok, t, store) ==
    IF tok.form # "jws" THEN Reject("Invalid token format")
    ELSE LET err == JwtDecode(tok, API_SECRET_KEY, t) IN
         IF err = "ExpiredSignatureError" THEN Reject("Token has expired")
         ELSE IF err # "ok" THEN Reject("Invalid token signature")
         ELSE IF tok.type # "api_token" THEN Reject("Invalid token type")
         ELSE IF tok.app_id = 0 THEN Reject("Invalid token payload")
         ELSE LET client_app == get_client_app_by_app_id(store, tok.app_id) IN
              IF client_app = NoApp
              THEN Reject("Client application not found or disabled")
              ELSE Accept(tok.app_id)

verify_api_token_NoTypeCheck(tok, t, store) ==
    IF tok.form # "jws" THEN Reject("Invalid token format")
    ELSE LET err == JwtDecode(tok, API_SECRET_KEY, t) IN
         IF err = "ExpiredSignatureError" THEN Reject("Token has expired")
         ELSE IF err # "ok" THEN Reject("Invalid token signature")
         ELSE IF tok.app_id = 0 THEN Reject("Invalid token payload")
         ELSE LET client_app == get_client_app_by_app_id(store, tok.app_id) IN
              IF client_app = NoApp \/ ~client_app.is_active
              THEN Reject("Client application not found or disabled")
              ELSE Accept(tok.app_id)

verify_api_token_LivenessBeforeType(tok, t, store) ==
    IF tok.form # "jws" THEN Reject("Invalid token format")
    ELSE LET err == JwtDecode(tok, API_SECRET_KEY, t) IN
         IF err = "ExpiredSignatureError" THEN Reject("Token has expired")
         ELSE IF err # "ok" THEN Reject("Invalid token signature")
         ELSE IF tok.app_id = 0 THEN Reject("Invalid token payload")
         ELSE LET client_app == get_client_app_by_app_id(store, tok.app_id) IN
              IF client_app = NoApp \/ ~client_app.is_active
              THEN Reject("Client application not found or disabled")
              ELSE IF tok.type # "api_token" THEN Reject("Invalid token type")
              ELSE Accept(tok.app_id)

verify_api_token(tok, t, store) ==
    IF tok.form # "jws" THEN Reject("Invalid token format")
    ELSE LET err == JwtDecode(tok, API_SECRET_KEY, t) IN
         IF err = "ExpiredSignatureError" THEN Reject("Token has expired")
         ELSE IF err # "ok" THEN Reject("Invalid token signature")
         ELSE IF tok.type # "api_token" THEN Reject("Invalid token type")
         ELSE IF tok.app_id = 0 THEN Reject("Invalid token payload")
         ELSE LET client_app == get_client_app_by_app_id(store, tok.app_id) IN
              IF client_app = NoApp \/ ~client_app.is_active
              THEN Reject("Client application not found or disabled")
              ELSE Accept(tok.app_id)

\* An exception that is no HTTPException and leaves the function that
\* raised it: status 0, the detail names its class.
Raise(exc) == [status |-> 0, detail |-> exc, app_id |-> 0]

\* The exception classes of PyJWT below InvalidTokenError.
InvalidTokenErrors ==
    {"DecodeError", "InvalidSignatureError", "ImmatureSignatureError",
     "ExpiredSignatureError"}

\* verify_api_token, the except clauses as they are tried in order for an
\* exception other than an HTTPException.  The clause `except jwt.JWTError`
\* names an attribute the module jwt (PyJWT) does not have: an exception
\* that reaches it makes the clause itself raise AttributeError, and the
\* clause `except Exception` after it is never tried.
ExceptClauses(exc) ==
    IF exc = "ExpiredSignatureError" THEN Reject("Token has expired")
    ELSE IF exc \in InvalidTokenErrors THEN Reject("Invalid token signature")
    ELSE Raise("AttributeError")

\* Whether verify_api_token gets as far as reading the credential store.
ReadsStore(tok, t) ==
    /\ tok.form = "jws"
    /\ JwtDecode(tok, API_SECRET_KEY, t) = "ok"
    /\ tok.type = "api_token"
    /\ tok.app_id # 0

\* verify_api_token with a credential store whose read may fail
\* (read_fails): the read then raises an error of the database driver.
verify_api_token_call(tok, t, store, read_fails) ==
    IF read_fails /\ ReadsStore(tok, t) THEN ExceptClauses("OperationalError")
    ELSE verify_api_token(tok, t, store)

\* Mutant of get_current_api_client: a failed verification is let through.
get_current_api_client_FailOpen(credentials, t, store, fault) ==
    LET payload == verify_api_token_call(credentials, t, store, fault = 1) IN
    IF payload.status = 0
    THEN Reject("Invalid authentication credentials")
    ELSE Accept(credentials.app_id)

\* Mutant of get_current_api_client: the detail tells what went wrong inside.
get_current_api_client_TellsError(credentials, t, store, fault) ==
    LET payload == verify_api_token_call(credentials, t, store, fault = 1) IN
    IF payload.status = HTTP_401_UNAUTHORIZED THEN payload
    ELSE IF payload.status = 0 THEN Reject(payload.detail)
    ELSE IF fault = 2 THEN Reject("OperationalError")
    ELSE IF get_client_app_by_app_id(store, payload.app_id) = NoApp
         THEN Reject("Client application not found")
    ELSE IF credentials.app_name = Absent THEN Reject("KeyError")
    ELSE Accept(payload.app_id)

\* get_current_api_client: the client context (its app_id), or the
\* HTTPException raised.  fault: 0 for none, 1 when the store read of
\* verify_api_token fails, 2 when the store read of this function fails.
\* An exception that is no HTTPException (the failed read, the AttributeError
\* out of verify_api_token, the KeyError of payload["app_name"]) is caught
\* by `except Exception`.
get_current_api_client(credentials, t, store, fault) ==
    LET payload == verify_api_token_call(credentials, t, store, fault = 1) IN
    IF payload.status = HTTP_401_UNAUTHORIZED THEN payload
    ELSE IF payload.status = 0
         THEN Reject("Invalid authentication credentials")
    ELSE IF fault = 2 THEN Reject("Invalid authentication credentials")
    ELSE IF get_client_app_by_app_id(store, payload.app_id) = NoApp
         THEN Reject("Client application not found")
    ELSE IF credentials.app_name = Absent
         THEN Reject("Invalid authentication credentials")
    ELSE Accept(payload.app_id)

\* api_security = HTTPBearer(...), auto_error left on: a request without an
\* Authorization header, or with empty credentials, is answered by FastAPI
\* itself.  FastAPI answers 403 up to version 0.121 and 401 from 0.122 on;
\* the repository does not pin the version.
NotAuthenticatedStatuses == {HTTP_403_FORBIDDEN, HTTP_401_UNAUTHORIZED}

HasCredentials(credentials) == credentials.form \notin {"none", "empty"}

\* ---------------------------------------------------------------- auth.py
\* USERS_DB, the demo accounts get_user falls back to.
USERS_DB ==
    [admin |-> [username |-> "admin", role |-> "admin"],
     user |-> [username |-> "user", role |-> "user"]]

Users == DOMAIN USERS_DB

NoUser == [username |-> "", role |-> ""]

get_user(username) ==
    IF username \in DOMAIN USERS_DB THEN USERS_DB[username] ELSE NoUser

\* create_access_token(data={"sub": username}, expires_delta)
create_access_token(username, t, expires_delta) ==
    JwtEncode(SESSION_SECRET_KEY, "", 0, Some(t + expires_delta), Absent,
              username)

\* jose.jwt.decode: a token is expired once its exp lies before the current
\* whole second.
JoseDecode(tok, key, t) ==
    IF tok.form # "jws" \/ tok.sig = "garbled" THEN "JWTError"
    ELSE IF tok.sig # key THEN "JWTError"
    ELSE IF tok.exp # Absent /\ tok.exp[1] < ToSeconds(t)
         THEN "ExpiredSignatureError"
    ELSE "ok"

\* verify_token: the username, or "" for None.
verify_token(tok, t) ==
    IF JoseDecode(tok, SESSION_SECRET_KEY, t) # "ok" THEN ""
    ELSE tok.sub

\* get_current_user_from_session: the user, NoUser for None.
get_current_user_from_session(session_token, t) ==
    IF session_token = NoToken THEN NoUser
    ELSE IF verify_token(session_token, t) = "" THEN NoUser
    ELSE get_user(verify_token(session_token, t))

\* ---------------------------------------------------------------- state
Lifetimes == (0 - 1) .. MaxLifetime
AppIdSpace == 1 .. NumAppIds
SecretSpace == 1 .. NumSecrets
MaxTick == MaxTime * TicksPerSecond

NoBearer == [tok |-> NoToken, issued_at |-> 0, expires_in |-> 0]

\* A response without a JSON body of interest.
NoBody == [f \in {} |-> ""]

\* The last HTTP exchange: the operation, the credentials or id the request
\* carried (for a secret regeneration: the secret it replaced), the token it
\* carried (verification) or got back (issuance), and the status, the detail
\* and the body of the response.
Response(op, status, detail, app_id, app_secret, tok) ==
    [op |-> op, status |-> status, detail |-> detail, app_id |-> app_id,
     app_secret |-> app_secret, tok |-> tok, body |-> NoBody]

\* The items init_sample_data inserts, AUTOINCREMENT numbering them from 1:
\* one item of each of the two owners (the second item of john_doe, which
\* differs from the first in its name only, is left out).
sample_items ==
    {[id |-> 1, name |-> "Laptop", owner_id |-> 2],
     [id |-> 2, name |-> "Book", owner_id |-> 3]}

\* No request is inside get_current_api_client.
NoGate == [stage |-> "idle", credentials |-> NoToken, app_id |-> 0]

\* The toggle-status requests that can be in flight together.
ToggleRequests == 1 .. NumToggleRequests

NoToggle == [stage |-> "idle", user |-> "", id |-> 0, is_active |-> FALSE]

Init ==
    /\ now = 0
    /\ client_apps = {}
    /\ next_id = 1
    /\ bearer = NoBearer
    /\ resp = Response("start", HTTP_200_OK, "", 0, 0, NoToken)
    /\ active_sessions = {}
    /\ items_db = sample_items
    /\ next_item_id = Cardinality(sample_items) + 1
    /\ gate_pc = NoGate
    /\ toggle_pc = [r \in ToggleRequests |-> NoToggle]

\* Time passes between two requests.
Tick ==
    /\ now < MaxTick
    /\ now' = now + 1
    /\ resp' = Response("tick", HTTP_200_OK, "", 0, 0, NoToken)
    /\ UNCHANGED <<client_apps, next_id, bearer, others>>

\* Mutant of the issuance: an attempt with a wrong secret disables the
\* application.
CreateToken_LocksOut ==
    \E app_id \in AppIdSpace, app_secret \in SecretSpace :
        LET err == CredentialError(client_apps, app_id, app_secret)
            app == get_client_app_by_app_id(client_apps, app_id) IN
        /\ err # ""
        /\ resp' = Response("token", HTTP_401_UNAUTHORIZED, err,
                            app_id, app_secret, NoToken)
        /\ client_apps' = IF app = NoApp THEN client_apps
                          ELSE update_client_app(client_apps, app.id, FALSE)
        /\ UNCHANGED <<now, next_id, bearer, others>>

\* POST /api/v1/auth/token: create_token -> create_api_token.  The clock may
\* advance by a tick between the two readings of utcnow().
CreateToken ==
    \E app_id \in AppIdSpace, app_secret \in SecretSpace,
       expires_in \in Lifetimes, d \in 0 .. 1 :
        LET err == CredentialError(client_apps, app_id, app_secret)
            tok == MintApiToken(app_id, expires_in, now, now + d) IN
        /\ now + d <= MaxTick
        /\ IF err # ""
           THEN /\ resp' = Response("token", HTTP_401_UNAUTHORIZED, err,
                                    app_id, app_secret, NoToken)
                /\ UNCHANGED <<now, bearer, others>>
           ELSE /\ bearer' = [tok |-> tok, issued_at |-> now,
                              expires_in |-> expires_in]
                /\ now' = now + d
                /\ resp' = [Response("token", HTTP_200_OK, "",
                                     app_id, app_secret, tok)
                               EXCEPT !.body = ResponseModel(APIToken,
                                   create_api_token_result(tok, expires_in, now))]
        /\ UNCHANGED <<client_apps, next_id, others>>

\* The tokens a client can present: the one it was issued, its session
\* cookie, and tokens of its own making derived from the issued one.
Tamperings(tok) ==
    {[tok EXCEPT !.sig = "garbled"], [tok EXCEPT !.sig = "forged-key"],
     [tok EXCEPT !.type = ""], [tok EXCEPT !.app_id = 0],
     [tok EXCEPT !.type = "", !.app_id = 0],
     [tok EXCEPT !.exp = Absent], [tok EXCEPT !.iat = Some(MaxTime)],
     [tok EXCEPT !.app_name = Absent],
     [tok EXCEPT !.form = "malformed"], [tok EXCEPT !.form = "empty"]}

\* The session tokens create_session returns at a login at time t.
SessionLifetime == ACCESS_TOKEN_EXPIRE_MINUTES * 60 * TicksPerSecond

SessionTokens(t) ==
    {create_access_token(username, t, SessionLifetime) : username \in Users}

Presentable ==
    (IF bearer = NoBearer THEN {} ELSE {bearer.tok} \cup Tamperings(bearer.tok))
    \cup SessionTokens(now)

\* The tokens a client can send as its session cookie.
Cookies ==
    (IF bearer = NoBearer THEN {} ELSE {bearer.tok})
    \cup SessionTokens(now) \cup {NoToken}

\* Verification that uses the credentials up: an accepted token deactivates
\* its application.
VerifyApiToken_OneShot ==
    \E tok \in Presentable :
        LET r == verify_api_token(tok, now, client_apps) IN
        /\ resp' = Response("verify", r.status, r.detail, r.app_id, 0, tok)
        /\ client_apps' =
               IF r.status = HTTP_200_OK
               THEN update_client_app(client_apps,
                        get_client_app_by_app_id(client_apps, r.app_id).id,
                        FALSE)
               ELSE client_apps
        /\ UNCHANGED <<now, next_id, bearer, others>>

\* A request to a protected endpoint: verify_api_token on its bearer token.
VerifyApiToken ==
    \E tok \in Presentable :
        LET r == verify_api_token(tok, now, client_apps) IN
        /\ resp' = Response("verify", r.status, r.detail, r.app_id, 0, tok)
        /\ UNCHANGED <<now, client_apps, next_id, bearer, others>>

\* GET /api/v1/users/ without an Authorization header, or with one of empty
\* credentials: the dependency api_security raises, and neither
\* get_current_api_client nor the handler get_users runs.
MissingAuthorization ==
    \E credentials \in {c \in Presentable \cup {NoToken} : ~HasCredentials(c)},
       not_authenticated \in NotAuthenticatedStatuses :
        /\ resp' = Response("api", not_authenticated, "Not authenticated",
                            0, 0, credentials)
        /\ UNCHANGED <<now, client_apps, next_id, bearer, others>>

\* GET /api/v1/users/ with a bearer token: the dependency
\* get_current_api_client is resolved first, and the handler get_users runs
\* with its result (client_info) only if it did not raise.  The body records
\* that the handler ran and the context it was given.  A failing store read
\* is only drawn where the request reads the store.
ProtectedRequest ==
    \E credentials \in {c \in Presentable : HasCredentials(c)} :
    \E fault \in IF ReadsStore(credentials, now) THEN 0 .. 2 ELSE {0} :
        LET client_info ==
                get_current_api_client(credentials, now, client_apps, fault) IN
        /\ resp' =
               IF client_info.status # HTTP_200_OK
               THEN Response("api", client_info.status, client_info.detail,
                             0, 0, credentials)
               ELSE [Response("api", HTTP_200_OK, "", client_info.app_id, 0,
                              credentials)
                        EXCEPT !.body = [handler |-> "get_users",
                                         client_info |-> client_info.app_id]]
        /\ UNCHANGED <<now, client_apps, next_id, bearer, others>>

\* create_session: the token is recorded in active_sessions.
create_session(sessions, session_token) == sessions \cup {session_token}

\* invalidate_session: the token is dropped from active_sessions.
invalidate_session(sessions, session_token) == sessions \ {session_token}

\* POST /auth/login with valid credentials: create_session, and a redirect
\* that sets the session cookie.
Login ==
    \E username \in Users :
        LET session_token ==
                create_access_token(username, now, SessionLifetime) IN
        /\ Cardinality(create_session(active_sessions, session_token))
               <= MaxSessions
        /\ active_sessions' = create_session(active_sessions, session_token)
        /\ resp' = Response("login", HTTP_303_SEE_OTHER, username, 0, 0,
                            session_token)
        /\ UNCHANGED <<now, client_apps, next_id, bearer, item_vars, race_vars>>

\* The tokens a browser can send as its session cookie: those of Cookies, the
\* ones active_sessions holds, and the one the last login set or the last
\* logout was sent (a client keeps what it was given).
SessionCookies ==
    Cookies \cup active_sessions
    \cup (IF resp.op \in {"login", "logout"} THEN {resp.tok} ELSE {})

\* POST /auth/logout and GET /auth/logout: invalidate_session on the cookie's
\* token if there is one, and a redirect that deletes the cookie.  The detail
\* records whether invalidate_session found the token in active_sessions.
Logout ==
    \E session_token \in SessionCookies :
        /\ active_sessions' =
               IF session_token # NoToken
               THEN invalidate_session(active_sessions, session_token)
               ELSE active_sessions
        /\ resp' = Response("logout", HTTP_303_SEE_OTHER,
                            IF session_token \in active_sessions
                            THEN "invalidated" ELSE "",
                            0, 0, session_token)
        /\ UNCHANGED <<now, client_apps, next_id, bearer, item_vars, race_vars>>

\* A request that carries a token as its session cookie:
\* get_current_user_from_session.
VerifySession ==
    \E tok \in SessionCookies :
        LET user == get_current_user_from_session(tok, now) IN
        /\ resp' = Response("session",
                            IF user = NoUser THEN HTTP_401_UNAUTHORIZED
                            ELSE HTTP_200_OK,
                            user.username, 0, 0, tok)
        /\ UNCHANGED <<now, client_apps, next_id, bearer, others>>

\* The users a management request can be made by, as its session cookie
\* resolves: NoUser when it resolves to none.
Requesters == {get_current_user_from_session(c, now) : c \in Cookies}

\* The body of a management response: who asked.
ManagementBody(user) == [user |-> user.username]

Forbidden(op, user) ==
    /\ resp' = [Response(op, HTTP_403_FORBIDDEN, "Admin access required",
                         0, 0, NoToken) EXCEPT !.body = ManagementBody(user)]
    /\ UNCHANGED <<now, client_apps, next_id, bearer, others>>

NotFound(op, user) ==
    /\ resp' = [Response(op, HTTP_404_NOT_FOUND, "Client app not found",
                         0, 0, NoToken) EXCEPT !.body = ManagementBody(user)]
    /\ UNCHANGED <<now, client_apps, next_id, bearer, others>>

\* `return self.get_client_app(client_app_id)` at the end of create_client_app
\* and update_client_app: the read runs on a connection of its own, inside the
\* `with` block of the writing connection, whose commit comes when the block
\* is left.  It sees the table as last committed, that is, as it was before
\* the write.
read_back(committed, client_app_id) == get_client_app(committed, client_app_id)

\* POST /admin/client-apps/create.  The body records the is_active the form
\* asked for and the row create_client_app returned (new_app).
CreateClientApp ==
    \E user \in Requesters, app_id \in AppIdSpace,
       app_secret \in SecretSpace, is_active \in BOOLEAN :
        /\ next_id <= MaxApps
        /\ IF user.role # "admin" THEN Forbidden("create", user)
           ELSE IF InsertViolatesUnique(client_apps, app_id)
           THEN /\ resp' = [Response("create", HTTP_500_INTERNAL_SERVER_ERROR,
                                     "IntegrityError", 0, 0, NoToken)
                               EXCEPT !.body = ManagementBody(user)]
                /\ UNCHANGED <<now, client_apps, next_id, bearer, others>>
           ELSE /\ client_apps' = create_client_app(client_apps, next_id, app_id,
                                                    app_secret, is_active)
                /\ next_id' = next_id + 1
                /\ resp' = [Response("create", HTTP_200_OK, "",
                                     app_id, 0, NoToken)
                               EXCEPT !.body =
                                   [user |-> user.username,
                                    is_active |-> is_active,
                                    new_app |-> read_back(client_apps, next_id)]]
                /\ UNCHANGED <<now, bearer, others>>

\* POST /admin/client-apps/api: as the form, but the row create_client_app
\* returned is unpacked into the response model, ClientAppWithSecret(**new_app),
\* which raises on None after the insert is committed.
CreateClientAppApi ==
    \E user \in Requesters, app_id \in AppIdSpace,
       app_secret \in SecretSpace, is_active \in BOOLEAN :
        LET new_app == read_back(client_apps, next_id) IN
        /\ next_id <= MaxApps
        /\ IF user.role # "admin" THEN Forbidden("create_api", user)
           ELSE IF InsertViolatesUnique(client_apps, app_id)
           THEN /\ resp' = [Response("create_api",
                                     HTTP_500_INTERNAL_SERVER_ERROR,
                                     "IntegrityError", 0, 0, NoToken)
                               EXCEPT !.body = ManagementBody(user)]
                /\ UNCHANGED <<now, client_apps, next_id, bearer, others>>
           ELSE /\ client_apps' = create_client_app(client_apps, next_id, app_id,
                                                    app_secret, is_active)
                /\ next_id' = next_id + 1
                /\ resp' = [Response("create_api",
                                     IF new_app = NoApp
                                     THEN HTTP_500_INTERNAL_SERVER_ERROR
                                     ELSE HTTP_200_OK,
                                     IF new_app = NoApp THEN "TypeError" ELSE "",
                                     app_id, 0, NoToken)
                               EXCEPT !.body =
                                   [user |-> user.username,
                                    is_active |-> is_active,
                                    new_app |-> new_app]]
                /\ UNCHANGED <<now, bearer, others>>

\* GET /admin/client-apps/ and GET /admin/client-apps/api: the list of the
\* client applications.
ListClientApps ==
    \E user \in Requesters :
        IF user.role # "admin" THEN Forbidden("list", user)
        ELSE /\ resp' = [Response("list", HTTP_200_OK, "", 0, 0, NoToken)
                            EXCEPT !.body =
                                [user |-> user.username,
                                 client_apps |-> {a.id : a \in client_apps}]]
             /\ UNCHANGED <<now, client_apps, next_id, bearer, others>>

\* POST /admin/client-apps/{app_id}/regenerate-secret
RegenerateSecret ==
    \E user \in Requesters, id \in 1 .. MaxApps, app_secret \in SecretSpace :
        LET app == get_client_app(client_apps, id) IN
        IF user.role # "admin" THEN Forbidden("regenerate", user)
        ELSE IF app = NoApp THEN NotFound("regenerate", user)
        ELSE /\ client_apps' = regenerate_secret(client_apps, id, app_secret)
             /\ resp' = [Response("regenerate", HTTP_200_OK, "",
                                  app.app_id, app.app_secret, NoToken)
                            EXCEPT !.body = ManagementBody(user)]
             /\ UNCHANGED <<now, next_id, bearer, others>>

\* toggle-status open to every logged-in user.
ToggleStatus_AnyUser ==
    \E user \in Requesters, id \in 1 .. MaxApps :
        LET app == get_client_app(client_apps, id) IN
        IF user = NoUser THEN Forbidden("toggle", user)
        ELSE IF app = NoApp THEN NotFound("toggle", user)
        ELSE /\ client_apps' = update_client_app(client_apps, id, ~app.is_active)
             /\ resp' = [Response("toggle", HTTP_200_OK, "",
                                  app.app_id, 0, NoToken)
                            EXCEPT !.body =
                                [user |-> user.username,
                                 updated_app |-> read_back(client_apps, id)]]
             /\ UNCHANGED <<now, next_id, bearer, others>>

\* POST /admin/client-apps/{app_id}/toggle-status.  The body records the row
\* update_client_app returned (updated_app).
ToggleStatus ==
    \E user \in Requesters, id \in 1 .. MaxApps :
        LET app == get_client_app(client_apps, id) IN
        IF user.role # "admin" THEN Forbidden("toggle", user)
        ELSE IF app = NoApp THEN NotFound("toggle", user)
        ELSE /\ client_apps' = update_client_app(client_apps, id, ~app.is_active)
             /\ resp' = [Response("toggle", HTTP_200_OK, "",
                                  app.app_id, 0, NoToken)
                            EXCEPT !.body =
                                [user |-> user.username,
                                 updated_app |-> read_back(client_apps, id)]]
             /\ UNCHANGED <<now, next_id, bearer, others>>

\* POST /admin/client-apps/{app_id}/delete and
\* DELETE /admin/client-apps/api/{app_id}
DeleteClientApp ==
    \E user \in Requesters, id \in 1 .. MaxApps :
        LET app == get_client_app(client_apps, id) IN
        IF user.role # "admin" THEN Forbidden("delete", user)
        ELSE IF app = NoApp THEN NotFound("delete", user)
        ELSE /\ client_apps' = delete_client_app(client_apps, id)
             /\ resp' = [Response("delete", HTTP_200_OK, "",
                                  app.app_id, 0, NoToken)
                            EXCEPT !.body = ManagementBody(user)]
             /\ UNCHANGED <<now, next_id, bearer, others>>

Next ==
    \/ Tick
    \/ CreateToken
    \/ VerifyApiToken
    \/ VerifySession
    \/ CreateClientApp
    \/ RegenerateSecret
    \/ ToggleStatus
    \/ DeleteClientApp

Spec == Init /\ [][Next]_vars

\* The protected API surface: issuance, the requests to a protected endpoint
\* and the store operations that make an application unavailable.
NextGate ==
    \/ Tick
    \/ CreateToken
    \/ MissingAuthorization
    \/ ProtectedRequest
    \/ CreateClientApp
    \/ ToggleStatus
    \/ DeleteClientApp

SpecGate == Init /\ [][NextGate]_vars

\* The management of the client applications, and issuance.
NextAdmin ==
    \/ CreateToken
    \/ ListClientApps
    \/ CreateClientApp
    \/ CreateClientAppApi
    \/ RegenerateSecret
    \/ ToggleStatus
    \/ DeleteClientApp

SpecAdmin == Init /\ [][NextAdmin]_vars

\* The browser session: login, logout and requests carrying the cookie.
NextSession ==
    \/ Tick
    \/ Login
    \/ Logout
    \/ VerifySession

SpecSession == Init /\ [][NextSession]_vars

\* ------------------------------------------------------------------- items
\* SQLiteItemCRUD over the items table; NoItem stands for None.
NoItem == [id |-> 0, name |-> "", owner_id |-> 0]

get_item(items, item_id) ==
    IF \E i \in items : i.id = item_id
    THEN CHOOSE i \in items : i.id = item_id
    ELSE NoItem

\* get_items: the rows of owner_id, all rows when owner_id is None (0).
get_items(items, owner_id) ==
    IF owner_id # 0 THEN {i \in items : i.owner_id = owner_id} ELSE items

create_item(items, id, name, owner_id) ==
    items \cup {[id |-> id, name |-> name, owner_id |-> owner_id]}

\* update_item: only the fields of item_update that are not None (Absent)
\* are written.
update_item(items, item_id, name, owner_id) ==
    {IF i.id # item_id THEN i
     ELSE [i EXCEPT !.name = IF name = Absent THEN @ ELSE name[1],
                    !.owner_id = IF owner_id = Absent THEN @ ELSE owner_id[1]]
        : i \in items}

delete_item(items, item_id) == {i \in items : i.id # item_id}

\* What get_current_user_from_session hands an items handler: a row of the
\* users table (the sample users, with the role values of UserRole), a demo
\* account of USERS_DB, which has no id (0 for None), or None (NoSessionUser).
NoSessionUser == [username |-> "", role |-> "", id |-> 0]

CurrentUsers ==
    {[username |-> "admin", role |-> "admin", id |-> 1],
     [username |-> "john_doe", role |-> "user", id |-> 2],
     [username |-> "jane_smith", role |-> "moderator", id |-> 3],
     [username |-> "user", role |-> "user", id |-> 0],
     NoSessionUser}

\* The names and owners an ItemUpdate can carry; Absent for None.
ItemNames == {Absent, Some("renamed")}
ItemOwners == {Absent} \cup {Some(u) : u \in 1 .. NumUsers}

\* The response of an items request: who asked, and for which item.
ItemResponse(op, status, detail, current_user, item_id) ==
    [Response(op, status, detail, 0, 0, NoToken)
        EXCEPT !.body = [user |-> current_user, item_id |-> item_id]]

AuthenticationRequired(op, current_user, item_id) ==
    /\ resp' = ItemResponse(op, HTTP_401_UNAUTHORIZED,
                            "Authentication required", current_user, item_id)
    /\ UNCHANGED <<now, client_apps, next_id, bearer, item_vars,
                   session_vars, race_vars>>

ItemNotFound(op, current_user, item_id) ==
    /\ resp' = ItemResponse(op, HTTP_404_NOT_FOUND, "Item not found",
                            current_user, item_id)
    /\ UNCHANGED <<now, client_apps, next_id, bearer, item_vars,
                   session_vars, race_vars>>

ItemForbidden(op, detail, current_user, item_id) ==
    /\ resp' = ItemResponse(op, HTTP_403_FORBIDDEN, detail, current_user,
                            item_id)
    /\ UNCHANGED <<now, client_apps, next_id, bearer, item_vars,
                   session_vars, race_vars>>

\* GET /api/v1/items/: a user who is not admin gets the items of their id.
\* The body lists the ids returned.
GetItems ==
    \E current_user \in CurrentUsers :
        IF current_user = NoSessionUser
        THEN AuthenticationRequired("get_items", current_user, 0)
        ELSE /\ resp' =
                    IF current_user.role # "admin" /\ current_user.id = 0
                    THEN ItemResponse("get_items", HTTP_400_BAD_REQUEST,
                                      "User ID not found", current_user, 0)
                    ELSE [ItemResponse("get_items", HTTP_200_OK, "",
                                       current_user, 0)
                             EXCEPT !.body =
                                 [user |-> current_user, item_id |-> 0,
                                  items |-> {i.id : i \in get_items(items_db,
                                      IF current_user.role # "admin"
                                      THEN current_user.id ELSE 0)}]]
             /\ UNCHANGED <<now, client_apps, next_id, bearer, item_vars,
                            session_vars, race_vars>>

\* GET /api/v1/items/{item_id}
GetItem ==
    \E current_user \in CurrentUsers, item_id \in 1 .. MaxItemId :
        LET item == get_item(items_db, item_id) IN
        IF current_user = NoSessionUser
        THEN AuthenticationRequired("get_item", current_user, item_id)
        ELSE IF item = NoItem
        THEN ItemNotFound("get_item", current_user, item_id)
        ELSE IF current_user.role # "admin" /\ item.owner_id # current_user.id
        THEN ItemForbidden("get_item", "You can only access your own items",
                           current_user, item_id)
        ELSE /\ resp' = ItemResponse("get_item", HTTP_200_OK, "",
                                     current_user, item_id)
             /\ UNCHANGED <<now, client_apps, next_id, bearer, item_vars,
                            session_vars, race_vars>>

\* POST /api/v1/items/: the item is assigned to the current user; an admin can
\* name another owner, who must exist.  An owner_id of None violates NOT NULL.
\* create_item reads the new row back on a second connection before the
\* insert is committed and returns None, which the response model Item
\* refuses: the row is inserted and the response is a 500.
CreateItem ==
    \E current_user \in CurrentUsers, owner \in {0} \cup (1 .. NumUsers + 1) :
        LET owner_id == IF current_user.role = "admin" /\ owner # 0
                        THEN owner ELSE current_user.id IN
        /\ next_item_id <= MaxItemId
        /\ IF current_user = NoSessionUser
           THEN AuthenticationRequired("create_item", current_user, 0)
           ELSE IF current_user.role = "admin" /\ owner > NumUsers
           THEN /\ resp' = ItemResponse("create_item", HTTP_400_BAD_REQUEST,
                                        "Owner not found", current_user, 0)
                /\ UNCHANGED <<now, client_apps, next_id, bearer, item_vars,
                               session_vars, race_vars>>
           ELSE IF owner_id = 0
           THEN /\ resp' = ItemResponse("create_item",
                                        HTTP_500_INTERNAL_SERVER_ERROR,
                                        "IntegrityError", current_user, 0)
                /\ UNCHANGED <<now, client_apps, next_id, bearer, item_vars,
                               session_vars, race_vars>>
           ELSE /\ items_db' = create_item(items_db, next_item_id, "new",
                                           owner_id)
                /\ next_item_id' = next_item_id + 1
                /\ resp' = ItemResponse("create_item",
                                        HTTP_500_INTERNAL_SERVER_ERROR,
                                        "ResponseValidationError",
                                        current_user, next_item_id)
                /\ UNCHANGED <<now, client_apps, next_id, bearer,
                               session_vars, race_vars>>

\* PUT /api/v1/items/{item_id}, without the check that keeps a user who is
\* not admin from naming a new owner.
UpdateItem_OwnerChangeAllowed ==
    \E current_user \in CurrentUsers, item_id \in 1 .. MaxItemId,
       name \in ItemNames, owner_id \in ItemOwners :
        LET existing_item == get_item(items_db, item_id) IN
        IF current_user = NoSessionUser
        THEN AuthenticationRequired("update_item", current_user, item_id)
        ELSE IF existing_item = NoItem
        THEN ItemNotFound("update_item", current_user, item_id)
        ELSE IF /\ current_user.role # "admin"
                /\ existing_item.owner_id # current_user.id
        THEN ItemForbidden("update_item", "You can only update your own items",
                           current_user, item_id)
        ELSE /\ items_db' = update_item(items_db, item_id, name, owner_id)
             /\ resp' = ItemResponse("update_item", HTTP_200_OK, "",
                                     current_user, item_id)
             /\ UNCHANGED <<now, client_apps, next_id, bearer, next_item_id,
                            session_vars, race_vars>>

\* PUT /api/v1/items/{item_id}
UpdateItem ==
    \E current_user \in CurrentUsers, item_id \in 1 .. MaxItemId,
       name \in ItemNames, owner_id \in ItemOwners :
        LET existing_item == get_item(items_db, item_id) IN
        IF current_user = NoSessionUser
        THEN AuthenticationRequired("update_item", current_user, item_id)
        ELSE IF existing_item = NoItem
        THEN ItemNotFound("update_item", current_user, item_id)
        ELSE IF /\ current_user.role # "admin"
                /\ existing_item.owner_id # current_user.id
        THEN ItemForbidden("update_item", "You can only update your own items",
                           current_user, item_id)
        ELSE IF current_user.role # "admin" /\ owner_id # Absent
        THEN ItemForbidden("update_item",
                           "You cannot change the owner of an item",
                           current_user, item_id)
        ELSE /\ items_db' = update_item(items_db, item_id, name, owner_id)
             /\ resp' = ItemResponse("update_item", HTTP_200_OK, "",
                                     current_user, item_id)
             /\ UNCHANGED <<now, client_apps, next_id, bearer, next_item_id,
                            session_vars, race_vars>>

\* DELETE /api/v1/items/{item_id}
DeleteItem ==
    \E current_user \in CurrentUsers, item_id \in 1 .. MaxItemId :
        LET existing_item == get_item(items_db, item_id) IN
        IF current_user = NoSessionUser
        THEN AuthenticationRequired("delete_item", current_user, item_id)
        ELSE IF existing_item = NoItem
        THEN ItemNotFound("delete_item", current_user, item_id)
        ELSE IF /\ current_user.role # "admin"
                /\ existing_item.owner_id # current_user.id
        THEN ItemForbidden("delete_item", "You can only delete your own items",
                           current_user, item_id)
        ELSE /\ items_db' = delete_item(items_db, item_id)
             /\ resp' = ItemResponse("delete_item", HTTP_200_OK, "",
                                     current_user, item_id)
             /\ UNCHANGED <<now, client_apps, next_id, bearer, next_item_id,
                            session_vars, race_vars>>

\* The items API.
NextItems ==
    \/ GetItems
    \/ GetItem
    \/ CreateItem
    \/ UpdateItem
    \/ DeleteItem

SpecItems == Init /\ [][NextItems]_vars

\* ------------------------------------------------- requests in flight
\* The store calls of one request are transactions of their own (each CRUD
\* method opens its connection), and the table is shared with every other
\* request and process that has the database file open.  Here a request is
\* taken one store call at a time, so that the calls of other requests can
\* fall between two calls of the same request.

\* get_current_api_client up to the return of verify_api_token.  A request
\* that verification rejects is answered at once.
GateVerify ==
    \E credentials \in {c \in Presentable : HasCredentials(c)} :
        LET payload ==
                verify_api_token_call(credentials, now, client_apps, FALSE) IN
        /\ gate_pc = NoGate
        /\ IF payload.status # HTTP_200_OK
           THEN /\ resp' = Response("api", HTTP_401_UNAUTHORIZED, payload.detail,
                                    0, 0, credentials)
                /\ UNCHANGED gate_pc
           ELSE /\ gate_pc' = [stage |-> "verified",
                               credentials |-> credentials,
                               app_id |-> payload.app_id]
                /\ UNCHANGED resp
        /\ UNCHANGED <<now, client_apps, next_id, bearer, toggle_pc,
                       session_vars, item_vars>>

\* get_current_api_client from its own lookup on: the row is fetched again,
\* only its absence is refused, and the handler get_users runs with the
\* context.  The body records the client_app row the context carries.
GateLookup ==
    LET client_app == get_client_app_by_app_id(client_apps, gate_pc.app_id) IN
    /\ gate_pc.stage = "verified"
    /\ gate_pc' = NoGate
    /\ resp' =
           IF client_app = NoApp
           THEN Response("api", HTTP_401_UNAUTHORIZED,
                         "Client application not found", 0, 0,
                         gate_pc.credentials)
           ELSE IF gate_pc.credentials.app_name = Absent
           THEN Response("api", HTTP_401_UNAUTHORIZED,
                         "Invalid authentication credentials", 0, 0,
                         gate_pc.credentials)
           ELSE [Response("api", HTTP_200_OK, "", gate_pc.app_id, 0,
                          gate_pc.credentials)
                    EXCEPT !.body = [handler |-> "get_users",
                                     client_info |-> gate_pc.app_id,
                                     client_app |-> client_app]]
    /\ UNCHANGED <<now, client_apps, next_id, bearer, toggle_pc,
                   session_vars, item_vars>>

\* toggle_app_status_form up to the return of get_client_app_by_id: the
\* request holds the row it read.
ToggleRead(r) ==
    \E user \in Requesters, id \in 1 .. MaxApps :
        LET app == get_client_app(client_apps, id) IN
        /\ toggle_pc[r] = NoToggle
        /\ IF user.role # "admin" THEN Forbidden("toggle", user)
           ELSE IF app = NoApp THEN NotFound("toggle", user)
           ELSE /\ toggle_pc' = [toggle_pc EXCEPT
                                    ![r] = [stage |-> "read",
                                            user |-> user.username,
                                            id |-> id,
                                            is_active |-> app.is_active]]
                /\ UNCHANGED <<now, client_apps, next_id, bearer, resp,
                               gate_pc, session_vars, item_vars>>

\* toggle_app_status_form from update_client_app on: the negation of the flag
\* the request read is written.  A row deleted in between makes
\* update_client_app return None, and updated_app["is_active"] raises.
ToggleWrite(r) ==
    LET id == toggle_pc[r].id
        app == get_client_app(client_apps, id) IN
    /\ toggle_pc[r].stage = "read"
    /\ toggle_pc' = [toggle_pc EXCEPT ![r] = NoToggle]
    /\ IF app = NoApp
       THEN /\ resp' = [Response("toggle", HTTP_500_INTERNAL_SERVER_ERROR,
                                 "TypeError", 0, 0, NoToken)
                           EXCEPT !.body = [user |-> toggle_pc[r].user]]
            /\ UNCHANGED client_apps
       ELSE /\ client_apps' = update_client_app(client_apps, id,
                                                ~toggle_pc[r].is_active)
            /\ resp' = [Response("toggle", HTTP_200_OK, "",
                                 app.app_id, 0, NoToken)
                           EXCEPT !.body =
                               [user |-> toggle_pc[r].user,
                                updated_app |-> read_back(client_apps, id)]]
    /\ UNCHANGED <<now, next_id, bearer, gate_pc, session_vars, item_vars>>

\* A request to a protected endpoint in flight while the administrator
\* toggles applications.
NextGateRace ==
    \/ CreateClientApp
    \/ CreateToken
    \/ GateVerify
    \/ GateLookup
    \/ ToggleStatus

SpecGateRace == Init /\ [][NextGateRace]_vars

\* Toggle-status requests in flight together.
NextToggleRace ==
    \/ CreateClientApp
    \/ \E r \in ToggleRequests : ToggleRead(r)
    \/ \E r \in ToggleRequests : ToggleWrite(r)

SpecToggleRace == Init /\ [][NextToggleRace]_vars

\* ------------------------------------------------------------------ claims
\* The row the credentials of the last issuance request name, the store being
\* as the request found it (issuance does not write).
RequestedApp == get_client_app_by_app_id(client_apps, resp.app_id)

ValidCredentials ==
    /\ resp.op = "token"
    /\ RequestedApp # NoApp
    /\ RequestedApp.is_active
    /\ RequestedApp.app_secret = resp.app_secret

NotExpired(tok) == tok.exp # Absent /\ now < tok.exp[1] * TicksPerSecond

\* C1 (as claimed): for an active application, create_api_token with the
\* stored app_id and app_secret and any requested lifetime returns a token that
\* verify_api_token accepts immediately afterwards, with payload app_id equal
\* to the input.
C1_AnyLifetimeVerifies ==
    ValidCredentials =>
        /\ resp.status = HTTP_200_OK
        /\ resp.tok # NoToken
        /\ verify_api_token(resp.tok, now, client_apps) = Accept(resp.app_id)

\* C1 (amended): for an active application, create_api_token with the stored
\* app_id and app_secret returns a token whatever the requested lifetime, and
\* when the lifetime is at least one second verify_api_token accepts that
\* token immediately afterwards (within the clock second of the issuance, no
\* store change in between) with payload app_id equal to the input.
C1_IssuedTokenVerifies ==
    ValidCredentials =>
        /\ resp.status = HTTP_200_OK
        /\ resp.tok # NoToken
        /\ resp.tok = bearer.tok
        /\ (bearer.expires_in >= 1 /\ ToSeconds(now) = ToSeconds(bearer.issued_at))
            => verify_api_token(resp.tok, now, client_apps) = Accept(resp.app_id)

C1_Witness ==
    /\ ValidCredentials
    /\ bearer.expires_in >= 1
    /\ ToSeconds(now) = ToSeconds(bearer.issued_at)
    /\ verify_api_token(resp.tok, now, client_apps).app_id = resp.app_id
    /\ resp.app_id # 0

\* C2: create_api_token fails with 401 and returns no token whenever the
\* app_id is not in the store, the application is inactive, or the secret
\* differs from the stored one.
C2_BadCredentialsRejected ==
    (/\ resp.op = "token"
     /\ \/ RequestedApp = NoApp
        \/ ~RequestedApp.is_active
        \/ RequestedApp.app_secret # resp.app_secret)
    =>  /\ resp.status = HTTP_401_UNAUTHORIZED
        /\ resp.tok = NoToken

C2_Witness ==
    /\ resp.op = "token"
    /\ RequestedApp # NoApp
    /\ RequestedApp.is_active
    /\ RequestedApp.app_secret # resp.app_secret
    /\ resp.status = HTTP_401_UNAUTHORIZED
    /\ resp.tok = NoToken

\* The response the same issuance request gets when the store holds no
\* application of that app_id.
ResponseIfUnknown ==
    CredentialError(client_apps \ {RequestedApp}, resp.app_id, resp.app_secret)

\* C4: an issuance attempt against an existing but inactive application gets
\* the same status and detail as an attempt with an unknown app_id.
C4_InactiveLooksUnknown ==
    (resp.op = "token" /\ RequestedApp # NoApp /\ ~RequestedApp.is_active)
    =>  /\ resp.status = HTTP_401_UNAUTHORIZED
        /\ resp.detail = ResponseIfUnknown

\* C5: issuance for an app_id that was never created and issuance for an
\* active app_id with a wrong secret get identical responses.
C5_WrongSecretLooksUnknown ==
    (/\ resp.op = "token"
     /\ RequestedApp # NoApp
     /\ RequestedApp.is_active
     /\ RequestedApp.app_secret # resp.app_secret)
    =>  /\ resp.status = HTTP_401_UNAUTHORIZED
        /\ resp.detail = ResponseIfUnknown
        /\ resp.tok = NoToken

C5_Witness ==
    /\ resp.op = "token"
    /\ RequestedApp # NoApp
    /\ RequestedApp.is_active
    /\ RequestedApp.app_secret # resp.app_secret
    /\ resp.detail = "Invalid client credentials"

\* The application a token names, as the store holds it now.
AppOf(tok) == get_client_app_by_app_id(client_apps, tok.app_id)

SignedWithApiKey(tok) == tok.form = "jws" /\ tok.sig = API_SECRET_KEY

\* C3: verify_api_token returns a payload only if the signature verifies under
\* the API signing key, now < the token's expiry, the type is api_token and
\* the app_id resolves to a stored application that is active.
C3_AcceptedOnlyIfAllFour ==
    (resp.op = "verify" /\ resp.status = HTTP_200_OK)
    =>  /\ SignedWithApiKey(resp.tok)
        /\ NotExpired(resp.tok)
        /\ resp.tok.type = "api_token"
        /\ AppOf(resp.tok) # NoApp
        /\ AppOf(resp.tok).is_active

\* The instant t + L of the token the client holds, in ticks.
Deadline == bearer.issued_at + bearer.expires_in * TicksPerSecond

\* C6: a token issued at time t with lifetime L is rejected with 401 by every
\* verification later than t + L, whatever the state of its application.
C6_RejectedAfterLifetime ==
    (bearer # NoBearer /\ now > Deadline)
    =>  /\ verify_api_token(bearer.tok, now, client_apps)
               = Reject("Token has expired")
        /\ (resp.op = "verify" /\ resp.tok = bearer.tok)
               => resp.status = HTTP_401_UNAUTHORIZED

C6_Witness ==
    /\ bearer # NoBearer
    /\ bearer.expires_in >= 1
    /\ now > Deadline
    /\ AppOf(bearer.tok) # NoApp
    /\ AppOf(bearer.tok).is_active
    /\ resp.op = "verify"
    /\ resp.tok = bearer.tok
    /\ resp.detail = "Token has expired"

\* C7: once the application of an issued token is deactivated or deleted, a
\* verification of the still-unexpired token fails with the client-unavailable
\* rejection (401), for as long as the application is inactive or absent.
C7_RejectedWhenClientUnavailable ==
    (/\ bearer # NoBearer
     /\ NotExpired(bearer.tok)
     /\ (AppOf(bearer.tok) = NoApp \/ ~AppOf(bearer.tok).is_active))
    =>  /\ verify_api_token(bearer.tok, now, client_apps)
               = Reject("Client application not found or disabled")
        /\ (resp.op = "verify" /\ resp.tok = bearer.tok)
               => /\ resp.status = HTTP_401_UNAUTHORIZED
                  /\ resp.detail = "Client application not found or disabled"

C7_Witness ==
    /\ bearer # NoBearer
    /\ NotExpired(bearer.tok)
    /\ AppOf(bearer.tok) # NoApp
    /\ ~AppOf(bearer.tok).is_active
    /\ resp.op = "verify"
    /\ resp.tok = bearer.tok
    /\ resp.detail = "Client application not found or disabled"

\* C8: verify_api_token rejects every token that is signed with another key
\* than the API signing key or whose type is not api_token, every session
\* token of create_access_token among them, and the session verify_token does
\* not accept an API token sent as session cookie.
C8_NoCrossTokenReplay ==
    /\ (resp.op = "verify"
        /\ (~SignedWithApiKey(resp.tok) \/ resp.tok.type # "api_token"))
            => resp.status = HTTP_401_UNAUTHORIZED
    /\ \A tok \in SessionTokens(now) :
            verify_api_token(tok, now, client_apps).status = HTTP_401_UNAUTHORIZED
    /\ (resp.op = "session" /\ SignedWithApiKey(resp.tok))
            => resp.status = HTTP_401_UNAUTHORIZED
    /\ bearer # NoBearer => verify_token(bearer.tok, now) = ""

C8_Witness ==
    /\ resp.op = "session"
    /\ bearer # NoBearer
    /\ resp.tok = bearer.tok
    /\ verify_api_token(bearer.tok, now, client_apps).status = HTTP_200_OK
    /\ resp.status = HTTP_401_UNAUTHORIZED

\* What verify_api_token answers to a token depends on the clock and the
\* store only, so a step that leaves both unchanged leaves the answer unchanged.
Rejected(tok) ==
    verify_api_token(tok, now, client_apps).status = HTTP_401_UNAUTHORIZED

\* The rejections that do not rest on the store or on a not yet valid iat:
\* format, signature or encoding, expiry, token type, subject.
RejectedForGood(tok) ==
    \/ tok.form # "jws"
    \/ JwtDecode(tok, API_SECRET_KEY, now)
           \in {"DecodeError", "InvalidSignatureError", "ExpiredSignatureError"}
    \/ /\ JwtDecode(tok, API_SECRET_KEY, now) = "ok"
       /\ (tok.type # "api_token" \/ tok.app_id = 0)

\* C9 (as claimed): once verify_api_token rejects a token, it rejects that
\* token at every later call, whatever store operations happen in between.
C9_RejectionPermanent ==
    [][\/ UNCHANGED <<now, client_apps>>
       \/ bearer = NoBearer
       \/ Rejected(bearer.tok) => Rejected(bearer.tok)']_vars

\* C9 (amended): once verify_api_token rejects a token for its format, its
\* signature or encoding, its expiry, its type or its missing app_id, it
\* rejects that token at every later call, whatever store operations happen in
\* between; a client-unavailable rejection lasts only while the application is
\* absent or inactive.
C9_EarlyRejectionPermanent ==
    [][\/ UNCHANGED <<now, client_apps>>
       \/ \A tok \in Presentable : RejectedForGood(tok) => Rejected(tok)']_vars

C9_Witness ==
    /\ resp.op = "toggle"
    /\ resp.status = HTTP_200_OK
    /\ bearer # NoBearer
    /\ AppOf(bearer.tok) # NoApp
    /\ AppOf(bearer.tok).is_active
    /\ AppOf(bearer.tok).app_id = resp.app_id
    /\ Rejected(bearer.tok)
    /\ RejectedForGood(bearer.tok)

\* The checks of verify_api_token, each on its own.
FailsFormat(tok) == tok.form # "jws"
FailsDecode(tok) == JwtDecode(tok, API_SECRET_KEY, now) # "ok"
FailsType(tok) == tok.type # "api_token"
FailsSubject(tok) == tok.app_id = 0
FailsLiveness(tok, store) ==
    \A a \in store : a.app_id = tok.app_id => ~a.is_active

DecodeDetails ==
    {"Token has expired", "Invalid token signature"}

\* Stores that differ from the current one in every way the liveness check
\* could see.
OtherStores ==
    { {},
      {[a EXCEPT !.is_active = ~a.is_active] : a \in client_apps},
      {[id |-> i, app_id |-> i, app_secret |-> 1, is_active |-> TRUE]
          : i \in AppIdSpace} }

\* C10: verify_api_token checks format, signature/decode/expiry, token type,
\* subject presence and client liveness in this order and reports the first
\* check that fails; a failure of one of the first four does not depend on the
\* store.
C10_ChecksInOrder ==
    resp.op = "verify" =>
        LET tok == resp.tok IN
        /\ resp.detail = "Invalid token format" <=> FailsFormat(tok)
        /\ resp.detail \in DecodeDetails
               <=> (~FailsFormat(tok) /\ FailsDecode(tok))
        /\ resp.detail = "Invalid token type"
               <=> (~FailsFormat(tok) /\ ~FailsDecode(tok) /\ FailsType(tok))
        /\ resp.detail = "Invalid token payload"
               <=> (/\ ~FailsFormat(tok) /\ ~FailsDecode(tok)
                    /\ ~FailsType(tok) /\ FailsSubject(tok))
        /\ resp.detail = "Client application not found or disabled"
               <=> (/\ ~FailsFormat(tok) /\ ~FailsDecode(tok)
                    /\ ~FailsType(tok) /\ ~FailsSubject(tok)
                    /\ FailsLiveness(tok, client_apps))
        /\ resp.status = HTTP_200_OK
               <=> (/\ ~FailsFormat(tok) /\ ~FailsDecode(tok)
                    /\ ~FailsType(tok) /\ ~FailsSubject(tok)
                    /\ ~FailsLiveness(tok, client_apps))
        /\ (FailsFormat(tok) \/ FailsDecode(tok) \/ FailsType(tok)
                \/ FailsSubject(tok))
               => \A store \in OtherStores :
                      verify_api_token(tok, now, store)
                          = Reject(resp.detail)

\* A token that fails the type check and names an inactive application is
\* reported as of the wrong type.
C10_Witness ==
    /\ resp.op = "verify"
    /\ ~FailsFormat(resp.tok)
    /\ ~FailsDecode(resp.tok)
    /\ FailsType(resp.tok)
    /\ ~FailsSubject(resp.tok)
    /\ AppOf(resp.tok) # NoApp
    /\ ~AppOf(resp.tok).is_active
    /\ resp.detail = "Invalid token type"

\* ------------------------------------------------- the protected endpoints
\* The handler of the last request to a protected endpoint ran.
HandlerRan == resp.op = "api" /\ "handler" \in DOMAIN resp.body

\* C11: a request to a protected endpoint without an Authorization header is
\* rejected with 401 before any handler logic runs.  (The rejection comes
\* from HTTPBearer; the handler never runs, but the status is 403 with the
\* FastAPI versions before 0.122.)
C11_MissingHeaderIs401 ==
    (resp.op = "api" /\ ~HasCredentials(resp.tok))
    =>  /\ resp.status = HTTP_401_UNAUTHORIZED
        /\ ~HandlerRan

\* C12: a handler guarded by get_current_api_client runs only for a request
\* whose token verify_api_token accepts, and is then given a context whose
\* app_id is the app_id of that token; when the verification of a presented
\* token fails the response is 401 and the handler does not run.
C12_HandlerOnlyAfterVerification ==
    resp.op = "api" =>
        LET verified == verify_api_token(resp.tok, now, client_apps) IN
        /\ HandlerRan =>
              /\ verified = Accept(resp.tok.app_id)
              /\ resp.body.client_info = resp.tok.app_id
              /\ resp.tok.app_id # 0
              /\ resp.status = HTTP_200_OK
        /\ (HasCredentials(resp.tok) /\ verified.status # HTTP_200_OK) =>
              /\ resp.status = HTTP_401_UNAUTHORIZED
              /\ ~HandlerRan

C12_Witness ==
    /\ HandlerRan
    /\ bearer # NoBearer
    /\ resp.tok = bearer.tok
    /\ resp.body.client_info = bearer.tok.app_id
    /\ bearer.tok.app_id # 0

\* The messages verify_api_token raises, and those of get_current_api_client.
VerifierDetails ==
    {"Invalid token format", "Token has expired", "Invalid token signature",
     "Invalid token type", "Invalid token payload",
     "Client application not found or disabled"}

GateDetails ==
    VerifierDetails
        \cup {"Client application not found", "Invalid authentication credentials"}

\* C13: every rejection by verify_api_token (for the token's format,
\* signature, expiry, type, payload or an unavailable client) and every
\* rejection by get_current_api_client is a 401 whose detail is one of a fixed
\* set of messages, none of which is made from the token or a secret.
C13_RejectionsAre401FixedDetail ==
    /\ \A tok \in Presentable :
            LET r == verify_api_token(tok, now, client_apps) IN
            r.status # HTTP_200_OK =>
                /\ r.status = HTTP_401_UNAUTHORIZED
                /\ r.detail \in VerifierDetails
    /\ (resp.op = "api" /\ HasCredentials(resp.tok) /\ ~HandlerRan) =>
            /\ resp.status = HTTP_401_UNAUTHORIZED
            /\ resp.detail \in GateDetails

\* A token whose payload lacks app_name passes verify_api_token and is
\* rejected by get_current_api_client itself.
C13_Witness ==
    /\ resp.op = "api"
    /\ resp.status = HTTP_401_UNAUTHORIZED
    /\ resp.detail = "Invalid authentication credentials"
    /\ resp.tok.app_name = Absent
    /\ verify_api_token(resp.tok, now, client_apps).status = HTTP_200_OK

\* C14: an unexpected internal error during verification, such as a failing
\* read of the credential store, does not leave verify_api_token as an
\* exception that is no HTTPException: it becomes 401 'Token validation
\* failed'.
C14_InternalErrorIs401 ==
    (bearer # NoBearer /\ ReadsStore(bearer.tok, now)) =>
        verify_api_token_call(bearer.tok, now, client_apps, TRUE)
            = Reject("Token validation failed")

\* C15: create_api_token, verify_api_token and get_current_api_client leave
\* the credential store as it is, whether they succeed or fail.
C15_AuthLeavesStoreUnchanged ==
    [][resp'.op \in {"token", "verify", "api"}
          => /\ client_apps' = client_apps
             /\ next_id' = next_id]_vars

C15_Witness ==
    /\ resp.op = "token"
    /\ resp.status = HTTP_401_UNAUTHORIZED
    /\ RequestedApp # NoApp
    /\ RequestedApp.is_active
    /\ RequestedApp.app_secret # resp.app_secret

\* ------------------------------------------------------ issuance, continued
\* C16: a successful response of POST /api/v1/auth/token has the four fields
\* access_token, token_type = "bearer", expires_in = the requested lifetime,
\* and expires_at.
C16_ResponseHasFourFields ==
    (resp.op = "token" /\ resp.status = HTTP_200_OK)
    =>  /\ DOMAIN resp.body
               = {"access_token", "token_type", "expires_in", "expires_at"}
        /\ resp.body.access_token = resp.tok
        /\ resp.body.token_type = "bearer"
        /\ resp.body.expires_in = bearer.expires_in

\* C17: in every token create_api_token issues, exp = iat + expires_in, and
\* the returned expires_at is the instant of exp (to the whole second).
C17_ExpIsIatPlusLifetime ==
    bearer # NoBearer =>
        /\ bearer.tok.exp[1] = bearer.tok.iat[1] + bearer.expires_in
        /\ ToSeconds(create_api_token_result(bearer.tok, bearer.expires_in,
                                             bearer.issued_at).expires_at)
               = bearer.tok.exp[1]

\* The application a step regenerated the secret of, before and after.
RegeneratedBefore == get_client_app_by_app_id(client_apps, resp'.app_id)
RegeneratedAfter == get_client_app_by_app_id(client_apps', resp'.app_id)

\* C18: after regenerate_secret the stored secret is the newly generated one;
\* with the application active, create_api_token with that secret passes the
\* credential checks, and with the previous secret (the new one differing
\* from it) it fails with 'Invalid client credentials'.
C18_OldSecretInvalidated ==
    [][(resp'.op = "regenerate" /\ resp'.status = HTTP_200_OK) =>
          /\ resp'.app_secret = RegeneratedBefore.app_secret
          /\ RegeneratedAfter.is_active = RegeneratedBefore.is_active
          /\ RegeneratedAfter.is_active =>
                /\ CredentialError(client_apps', resp'.app_id,
                                   RegeneratedAfter.app_secret) = ""
                /\ RegeneratedAfter.app_secret # RegeneratedBefore.app_secret
                      => CredentialError(client_apps', resp'.app_id,
                                         RegeneratedBefore.app_secret)
                             = "Invalid client credentials"]_vars

\* The secret of an active application was replaced by another one, and an
\* issuance with the replaced secret is refused.
C18_Witness ==
    /\ resp.op = "regenerate"
    /\ resp.status = HTTP_200_OK
    /\ RequestedApp.is_active
    /\ RequestedApp.app_secret # resp.app_secret
    /\ CredentialError(client_apps, resp.app_id, resp.app_secret)
           = "Invalid client credentials"
    /\ CredentialError(client_apps, resp.app_id, RequestedApp.app_secret) = ""

\* C19: regenerating the secret of an application leaves the verification of
\* the tokens issued before as it was: a token issued before is accepted
\* after the regeneration as long as it is not expired and its application
\* exists and is active.
C19_RegenerationKeepsTokens ==
    [][(resp'.op = "regenerate" /\ resp'.status = HTTP_200_OK
            /\ bearer # NoBearer) =>
          /\ verify_api_token(bearer.tok, now', client_apps')
                 = verify_api_token(bearer.tok, now, client_apps)
          /\ (/\ bearer.tok.exp[1] * TicksPerSecond > now'
              /\ get_client_app_by_app_id(client_apps', bearer.tok.app_id)
                     # NoApp
              /\ get_client_app_by_app_id(client_apps', bearer.tok.app_id)
                     .is_active)
             => verify_api_token(bearer.tok, now', client_apps')
                    = Accept(bearer.tok.app_id)]_vars

C19_Witness ==
    /\ resp.op = "regenerate"
    /\ resp.status = HTTP_200_OK
    /\ bearer # NoBearer
    /\ bearer.tok.app_id = resp.app_id
    /\ RequestedApp.app_secret # resp.app_secret
    /\ verify_api_token(bearer.tok, now, client_apps)
           = Accept(bearer.tok.app_id)

\* C20: verify_api_token compares the current time with the expiry itself, so
\* that a correctly signed api_token is accepted only if it carries an expiry
\* that lies in the future; one without an expiry claim is not accepted.
C20_AcceptedOnlyWithFutureExpiry ==
    \A tok \in Presentable :
        (/\ SignedWithApiKey(tok)
         /\ tok.type = "api_token"
         /\ verify_api_token(tok, now, client_apps).status = HTTP_200_OK)
        =>  /\ tok.exp # Absent
            /\ tok.exp[1] * TicksPerSecond > now

\* ------------------------------------------------------- the credential store
\* C21: in every reachable state of the store no two client applications have
\* the same app_id (nor the same id), so a lookup by app_id finds at most one
\* application, whatever creations, updates, regenerations and deletions
\* went before.
C21_AppIdUnique ==
    \A a, b \in client_apps :
        (a.app_id = b.app_id \/ a.id = b.id) => a = b

\* A creation whose generated app_id is already taken was refused, and the
\* store holds the application that has it.
C21_Witness ==
    /\ resp.op = "create"
    /\ resp.status = HTTP_500_INTERNAL_SERVER_ERROR
    /\ client_apps # {}
    /\ \A a \in client_apps : \E app_id \in AppIdSpace : a.app_id = app_id
\* C22: once logout has invalidated a session token, a request that carries
\* that token as its session cookie is not authenticated by
\* get_current_user_from_session, although the token has not expired: the
\* request that follows the logout with the same token is answered 401.
C22_LoggedOutTokenRefused ==
    [][(/\ resp.op = "logout"
        /\ resp.detail = "invalidated"
        /\ resp.tok \notin active_sessions
        /\ resp'.op = "session"
        /\ resp'.tok = resp.tok)
       => resp'.status = HTTP_401_UNAUTHORIZED]_vars


\* C23: through the items API a user who is not admin reads, updates or
\* deletes an item only if its owner_id is the user's id, and never changes
\* the owner_id of an item; a request on another user's item is refused with
\* 403 and leaves the item as it was, while an admin's request on any
\* existing item succeeds.
ItemRequestOps == {"get_item", "update_item", "delete_item"}

C24_CrudReturnsRowAfter ==
    /\ (resp.op \in {"create", "create_api"} /\ RequestedApp # NoApp)
          => /\ resp.body.new_app # NoApp
             /\ resp.body.new_app = RequestedApp
    /\ (resp.op = "toggle" /\ resp.status = HTTP_200_OK)
          => resp.body.updated_app = RequestedApp

\* C28: a client application created with is_active = false is stored as
\* inactive, and issuance with its app_id and app_secret right after the
\* creation fails.
C28_CreatedInactiveCannotIssue ==
    (resp.op = "create" /\ resp.status = HTTP_200_OK /\ ~resp.body.is_active)
        => /\ ~RequestedApp.is_active
           /\ CredentialError(client_apps, resp.app_id,
                              RequestedApp.app_secret) # ""

\* C30: no management operation (create, regenerate-secret, toggle-status,
\* delete, list) takes effect for a requester who is not logged in as a user
\* of role admin: the request is refused with 403 and the store is unchanged.
ManagementOps ==
    {"create", "create_api", "list", "regenerate", "toggle", "delete"}

C30_ManagementOnlyByAdmin ==
    [][(/\ resp'.op \in ManagementOps
        /\ get_user(resp'.body.user).role # "admin")
       => /\ resp'.status = HTTP_403_FORBIDDEN
          /\ UNCHANGED <<client_apps, next_id>>]_vars

C30_Witness ==
    /\ resp.op = "toggle"
    /\ resp.status = HTTP_403_FORBIDDEN
    /\ resp.body.user = "user"
    /\ \E a \in client_apps : a.is_active


\* C25: verify_api_token changes nothing: a verification leaves the store, the
\* clock and the client's token as they were, and verifying the same token
\* once more, with no store change and no time passed, returns what the first
\* verification returned.
C25_VerificationIsRepeatable ==
    [][resp'.op = "verify" =>
          /\ UNCHANGED <<now, client_apps, next_id, bearer>>
          /\ LET again == verify_api_token(resp'.tok, now', client_apps') IN
             /\ again.status = resp'.status
             /\ again.detail = resp'.detail
             /\ again.app_id = resp'.app_id]_vars

C25_Witness ==
    /\ resp.op = "verify"
    /\ resp.status = HTTP_200_OK
    /\ resp.tok = bearer.tok
    /\ verify_api_token(resp.tok, now, client_apps) = Accept(resp.app_id)

\* C29: create_api_token does not validate the lifetime: with the credentials
\* of an active application and expires_in <= 0 it returns a token, and every
\* verification of that token, the immediate one included, rejects it as
\* expired.
C29_NonPositiveLifetimeIsExpired ==
    /\ (ValidCredentials /\ bearer.expires_in <= 0)
          => /\ resp.status = HTTP_200_OK
             /\ resp.tok # NoToken
             /\ resp.tok = bearer.tok
    /\ (bearer # NoBearer /\ bearer.expires_in <= 0)
          => verify_api_token(bearer.tok, now, client_apps)
                 = Reject("Token has expired")

C29_Witness ==
    /\ ValidCredentials
    /\ resp.tok = bearer.tok
    /\ bearer.expires_in = 0
    /\ bearer.issued_at = now
    /\ verify_api_token(bearer.tok, now, client_apps).status
           = HTTP_401_UNAUTHORIZED


\* C26: the context get_current_api_client hands to a handler always carries
\* a client_app row with is_active true, also when the application is
\* deactivated between the lookup of verify_api_token and the lookup of
\* get_current_api_client.
C26_ContextCarriesActiveApp ==
    (resp.op = "api" /\ resp.status = HTTP_200_OK)
        => resp.body.client_app.is_active

\* C27: each completed toggle-status request on an existing client
\* application flips is_active once: the flag it leaves is the negation of the
\* flag as it was immediately before the request completed, also when toggle
\* requests are processed together.
C27_ToggleFlipsOnce ==
    [][\A r \in ToggleRequests :
          (/\ toggle_pc[r].stage = "read"
           /\ toggle_pc'[r] = NoToggle
           /\ get_client_app(client_apps, toggle_pc[r].id) # NoApp)
          => get_client_app(client_apps', toggle_pc[r].id).is_active
                 = ~get_client_app(client_apps, toggle_pc[r].id).is_active]_vars


=============================================================================
